---- MODULE Spec2Model ----
(***************************************************************************)
(* Ledger of the blockchain REST API: wallets, the pending-transaction     *)
(* pool, sealing (BlockchainController.mineBlock), genesis creation,       *)
(* chain validation and read-time balance reconciliation.                  *)
(*                                                                         *)
(* The persistent store (MongoDB collections) is the state.  A handler     *)
(* that awaits between store accesses and whose interleaving matters       *)
(* (mineBlock, initializeGenesis) is a process with a program counter;     *)
(* one step runs from one await to the next.                               *)
(*                                                                         *)
(* Spec is the running service.  SpecStored applies validateBlockchain to  *)
(* stored chains whose fields are overwritten outside the handlers.        *)
(* SpecCrypto applies CryptoUtils.calculateMerkleRoot,                     *)
(* CryptoUtils.mineBlock and CryptoUtils.verifySignature to arguments      *)
(* drawn from bounded sets; SpecCryptoFair adds that a call runs.          *)
(* SpecAuth is AuthController (register, login, refresh, logout) over the  *)
(* User collection.                                                        *)
(***************************************************************************)
EXTENDS Integers, Sequences, FiniteSets, TLC

\* ------------------------------------------------------------------ bounds
MaxWallets == 2
MaxTx == 2
MaxClock == 2
MaxNonce == 0
TicksPerSecond == 2
PowPeriod == 2
\* the stored chains handed to validateBlockchain
MaxBlocks == 3
MaxStoredTx == 3
\* calls of the CryptoUtils functions: distinct transaction hashes, and the
\* longest sequence of hashes handed to calculateMerkleRoot
MaxLeafHashes == 3
MaxLeaves == 4

\* ------------------------------------------------------- program constants
InitialBalance == 1000
MiningDifficulty == 4
SentinelZeros == 64
GenesisLiteralZeros == 10
GenesisPreviousZeros == 64
\* expiresIn of the access and the refresh token, in seconds ('15m', '7d')
AccessLifetime == 900
RefreshLifetime == 604800

Users == {"alice", "bob"}
\* the users who open wallets
WalletOwners == {"alice"}
Miners == {"m1", "m2"}
Starters == {"s1", "s2"}
Keys == 1..MaxWallets
\* a private key of the request body: a key of some pair, or 0, text that is no key
PrivateKeyInputs == 0..MaxWallets
Amounts == {600, 1200}
Fees == {1}
\* generateNonce: Math.floor(Math.random() * 1000000)
Nonces == 0..MaxNonce
\* a request body field that is not 40 hex characters
BadAddress == 0

\* wallets, txs, blocks: the collections; now: the clock; miner, starter: the
\* running mineBlock and initializeGenesis calls; call, result: the arguments
\* and the return value of a CryptoUtils function called on its own; users:
\* the User collection
VARIABLES wallets, txs, blocks, now, miner, starter, call, result, users,
          auth

vars == <<wallets, txs, blocks, now, miner, starter, call, result, users, auth>>

\* ----------------------------------------------------------------- helpers
Range(s) == {s[i] : i \in DOMAIN s}

RECURSIVE SumSeq(_)
SumSeq(s) == IF s = <<>> THEN 0 ELSE Head(s) + SumSeq(Tail(s))

\* ------------------------------------------------------------ CryptoUtils
\* generateAddress: a digest of the public key (one address per key)
generateAddress(publicKey) == 100 + publicKey

\* Date -> string as `${date}` renders it: Date.prototype.toString drops the
\* milliseconds; toISOString keeps them.
DateToString(t) == t \div TicksPerSecond
toISOString(t) == t

\* sign.sign(privateKey) throws when the text is no private key
KeyParses(privateKey) == privateKey \in Keys

\* a signature is a string: the hex text of the signature bytes of some data
\* under some key.  sign.sign(privateKey, 'hex') writes lowercase hex; the
\* same bytes can also be written in uppercase or be followed by characters
\* that are not hex digits, and a string may hold no hex digits at all
SignatureForms == {"lower", "upper", "trailing", "nothex"}

\* signData: the lowercase hex of the signature of exactly this data under
\* this key (RSA PKCS#1 v1.5: one signature for each data and key)
signData(data, privateKey) == [data |-> data, key |-> privateKey, enc |-> "lower"]

\* the bytes that verify.verify(publicKey, signature, 'hex') decodes from the
\* string: hex digits in either case, up to the first character that is none
HexDecode(signature) ==
    IF signature.enc = "nothex" THEN <<>>
    ELSE <<signature.data, signature.key>>

\* verify.verify throws when the text is no public key
PublicKeyParses(publicKey) == publicKey \in Keys

\* verifySignature that accepts every signature
verifySignature_AcceptsAll(data, signature, publicKey) == TRUE

\* verifySignature: true when the decoded bytes are the signature of the data
\* under the key of the same pair; an exception is caught and answered false
verifySignature(data, signature, publicKey) ==
    IF ~PublicKeyParses(publicKey) THEN FALSE
    ELSE HexDecode(signature) = <<data, publicKey>>

createTransactionHash(fromWallet, toWallet, amount, timestamp, nonce) ==
    <<"tx", fromWallet, toWallet, amount, DateToString(timestamp), nonce>>

\* sha256 of the concatenation of two digests
HashPair(left, right) ==
    <<"pair", left, right>>

EmptyDigest == <<"empty">>

\* a Merkle root in which the re-hashing goes on for a single hash
RECURSIVE calculateMerkleRoot_SingleRehashed(_)
calculateMerkleRoot_SingleRehashed(hashes) ==
    IF Len(hashes) = 0 THEN EmptyDigest
    ELSE LET level == [k \in 1..((Len(hashes) + 1) \div 2) |->
                         HashPair(hashes[2 * k - 1],
                                  IF 2 * k <= Len(hashes) THEN hashes[2 * k]
                                  ELSE hashes[2 * k - 1])]
         IN IF Len(level) = 1 THEN level[1]
            ELSE calculateMerkleRoot_SingleRehashed(level)

\* a Merkle root in which the last hash of an odd level moves up unpaired
RECURSIVE calculateMerkleRoot_PromoteLast(_)
calculateMerkleRoot_PromoteLast(hashes) ==
    IF Len(hashes) = 0 THEN EmptyDigest
    ELSE IF Len(hashes) = 1 THEN hashes[1]
    ELSE calculateMerkleRoot_PromoteLast(
           [k \in 1..((Len(hashes) + 1) \div 2) |->
              IF 2 * k <= Len(hashes)
              THEN HashPair(hashes[2 * k - 1], hashes[2 * k])
              ELSE hashes[2 * k - 1]])

\* a Merkle root that does not depend on the order of the hashes
calculateMerkleRoot_Unordered(hashes) ==
    IF hashes = <<>> THEN EmptyDigest ELSE <<"unordered", Range(hashes)>>

RECURSIVE calculateMerkleRoot(_)
calculateMerkleRoot(hashes) ==
    IF Len(hashes) = 0 THEN EmptyDigest
    ELSE IF Len(hashes) = 1 THEN hashes[1]
    ELSE calculateMerkleRoot(
           [k \in 1..((Len(hashes) + 1) \div 2) |->
              HashPair(hashes[2 * k - 1],
                       IF 2 * k <= Len(hashes) THEN hashes[2 * k]
                       ELSE hashes[2 * k - 1])])

calculateBlockHash(index, previousHash, timestamp, merkleRoot, nonce) ==
    <<"block", index, previousHash, DateToString(timestamp), merkleRoot, nonce>>

\* number of leading zero hex characters of a digest
LeadingZeros(h) ==
    IF h[1] \in {"literal", "zeros"} THEN h[2]
    ELSE IF h[1] = "block" /\ (h[2] + h[4] + h[6]) % PowPeriod = 0
         THEN MiningDifficulty
    ELSE 0

startsWith(h, difficulty) == LeadingZeros(h) >= difficulty

\* a search that returns the hash of the first nonce whatever the target
PowSearch_FirstNonce(index, previousHash, timestamp, merkleRoot, difficulty, nonce) ==
    [hash |-> calculateBlockHash(index, previousHash, timestamp, merkleRoot, nonce),
     nonce |-> nonce]

\* CryptoUtils.mineBlock: nonce = 1, 2, ... until the hash meets the target
RECURSIVE PowSearch(_, _, _, _, _, _)
PowSearch(index, previousHash, timestamp, merkleRoot, difficulty, nonce) ==
    LET hash == calculateBlockHash(index, previousHash, timestamp, merkleRoot, nonce)
    IN IF startsWith(hash, difficulty) THEN [hash |-> hash, nonce |-> nonce]
       ELSE PowSearch(index, previousHash, timestamp, merkleRoot, difficulty, nonce + 1)

\* a search that starts with nonce 0
CryptoMineBlock_FromZero(index, previousHash, timestamp, merkleRoot, difficulty) ==
    PowSearch(index, previousHash, timestamp, merkleRoot, difficulty, 0)

\* let nonce = 0; do { nonce++; ... } while (!hash.startsWith(target))
CryptoMineBlock(index, previousHash, timestamp, merkleRoot, difficulty) ==
    PowSearch(index, previousHash, timestamp, merkleRoot, difficulty, 1)

\* the string of 64 zeros used as previousHash of the first block
ZeroHash == <<"zeros", SentinelZeros>>

\* the hash literal written into the genesis block
GenesisHashLiteral ==
    <<"literal", GenesisLiteralZeros>>

\* the addresses and amounts that requests name
RequestAddresses == {generateAddress(k) : k \in Keys} \cup {BadAddress}
RequestAmounts == Amounts \cup {0}

\* ------------------------------------------------------------------ Wallet
\* schema: balance { min: 0 }, checked by every save()
WalletValid(balance) == balance >= 0

canSpend(balance, amount) == balance >= amount

\* Wallet.findOne({ address }): position of the wallet, 0 when there is none
FindWallet(address) ==
    IF \E w \in DOMAIN wallets : wallets[w].address = address
    THEN CHOOSE w \in DOMAIN wallets : wallets[w].address = address
    ELSE 0

\* ------------------------------------------------------------- Transaction
\* the text signed by createTransaction
SignedPayload(fromWallet, toWallet, amount, fee, timestamp, nonce) ==
    <<fromWallet, toWallet, amount, fee, toISOString(timestamp), nonce>>

\* the text verified by mineBlock and validateBlockchain
VerifiedPayload(tx) ==
    <<tx.fromWallet, tx.toWallet, tx.amount, tx.fee, toISOString(tx.timestamp)>>

RECURSIVE PendingFrom(_)
PendingFrom(i) ==
    IF i > Len(txs) THEN <<>>
    ELSE IF txs[i].status = "pending" THEN <<i>> \o PendingFrom(i + 1)
    ELSE PendingFrom(i + 1)

\* Transaction.getPending: the pending transactions by ascending timestamp
\* (timestamps never decrease with insertion order)
getPending == PendingFrom(1)

\* ------------------------------------------------------------------- Block
\* Block.getLatest: position of the block of greatest index, 0 on an empty chain
getLatest ==
    IF blocks = <<>> THEN 0
    ELSE CHOOSE b \in DOMAIN blocks :
           \A c \in DOMAIN blocks : blocks[c].index <= blocks[b].index

\* Block.getGenesis
getGenesis ==
    IF \E b \in DOMAIN blocks : blocks[b].index = 0
    THEN CHOOSE b \in DOMAIN blocks : blocks[b].index = 0
    ELSE 0

\* BlockSaveOk without the unique indexes: every save succeeds
BlockSaveOk_NoUniqueIndex(block) == TRUE

\* unique indexes of the Block collection: index and hash
BlockSaveOk(block) ==
    \A b \in DOMAIN blocks :
        blocks[b].index # block.index /\ blocks[b].hash # block.hash

\* ---------------------------------------------------------- authentication
\* the _id of the users; "ghost" is the _id of no stored user
UserIds == {"admin", "root"} \cup Users
MissingUserId == "ghost"

\* the User collection the service runs on: an administrator, the users, and
\* an administrator whose isActive has been set to false
SeededUsers ==
    <<[id |-> "admin", username |-> "admin", email |-> "admin@", role |-> "admin",
       isActive |-> TRUE, refreshTokens |-> <<>>],
      [id |-> "alice", username |-> "alice", email |-> "alice@", role |-> "user",
       isActive |-> TRUE, refreshTokens |-> <<>>],
      [id |-> "bob", username |-> "bob", email |-> "bob@", role |-> "user",
       isActive |-> TRUE, refreshTokens |-> <<>>],
      [id |-> "root", username |-> "root", email |-> "root@", role |-> "admin",
       isActive |-> FALSE, refreshTokens |-> <<>>]>>

\* the register requests in flight and the last answer of an auth handler
Registrants == {"r1", "r2"}
IdleRegistrant == [pc |-> "idle", username |-> "", email |-> ""]
IdleAuth == [reg |-> [r \in Registrants |-> IdleRegistrant], res |-> <<>>]

\* User.findById: position of the user, 0 when there is none
FindUser(id) ==
    IF \E u \in DOMAIN users : users[u].id = id
    THEN CHOOSE u \in DOMAIN users : users[u].id = id
    ELSE 0

\* Math.floor(Date.now() / 1000), the clock of jsonwebtoken
ClockTimestamp(t) == t \div TicksPerSecond

\* a token is <<kind, id, iat>>: kind names the secret it is signed with
\* (JWT_SECRET for "access", JWT_REFRESH_SECRET for "refresh"), id the user of
\* the payload, iat the second of issue
NoToken == <<"none">>
GarbageToken == <<"garbage">>
Lifetime(kind) == IF kind = "access" THEN AccessLifetime ELSE RefreshLifetime

\* jwt.sign(payload, secret, { expiresIn })
jwtSign(kind, id, t) == <<kind, id, ClockTimestamp(t)>>

\* jwt.verify(token, secret): the signature is checked before the expiry
jwtVerify(token, kind, t) ==
    IF token[1] # kind THEN "JsonWebTokenError"
    ELSE IF ClockTimestamp(t) >= token[3] + Lifetime(kind) THEN "TokenExpiredError"
    ELSE "decoded"

\* the tokens that requests carry at time t: none, text that is no token, a
\* refresh token, an access token that has expired, and a fresh access token
\* for each user and for a user that is no longer stored
RequestTokens(t) ==
    {NoToken, GarbageToken, jwtSign("refresh", "alice", t),
     <<"access", "alice", ClockTimestamp(t) - AccessLifetime>>}
    \cup {jwtSign("access", id, t) : id \in UserIds \cup {MissingUserId}}

\* authenticateToken that does not look at isActive
authenticateToken_IgnoringActive(token) ==
    IF token = NoToken THEN [status |-> 401, error |-> "Access token required"]
    ELSE IF jwtVerify(token, "access", now) = "TokenExpiredError"
         THEN [status |-> 401, error |-> "Token expired"]
    ELSE IF jwtVerify(token, "access", now) = "JsonWebTokenError"
         THEN [status |-> 403, error |-> "Invalid token"]
    ELSE IF FindUser(token[2]) = 0
         THEN [status |-> 401, error |-> "Invalid token"]
    ELSE [status |-> 0, error |-> "",
          user |-> [id |-> token[2], role |-> users[FindUser(token[2])].role]]

\* authenticateToken: status 0 stands for next(), with req.user set
authenticateToken(token) ==
    IF token = NoToken THEN [status |-> 401, error |-> "Access token required"]
    ELSE IF jwtVerify(token, "access", now) = "TokenExpiredError"
         THEN [status |-> 401, error |-> "Token expired"]
    ELSE IF jwtVerify(token, "access", now) = "JsonWebTokenError"
         THEN [status |-> 403, error |-> "Invalid token"]
    ELSE IF FindUser(token[2]) = 0 \/ ~users[FindUser(token[2])].isActive
         THEN [status |-> 401, error |-> "Invalid token"]
    ELSE [status |-> 0, error |-> "",
          user |-> [id |-> token[2], role |-> users[FindUser(token[2])].role]]

\* requireAdmin that lets every authenticated user through
requireAdmin_AnyRole(req) == [status |-> 0, error |-> "", user |-> req.user]

\* requireAdmin, after authenticateToken has set req.user
requireAdmin(req) ==
    IF req.user.role # "admin"
    THEN [status |-> 403, error |-> "Admin access required"]
    ELSE [status |-> 0, error |-> "", user |-> req.user]

\* checkWalletOwnership that lets every authenticated user through
checkWalletOwnership_AnyUser(req, w) ==
    IF w \notin DOMAIN wallets THEN [status |-> 404, error |-> "Wallet not found"]
    ELSE [status |-> 0, error |-> "", user |-> req.user]

\* checkWalletOwnership for the wallet at position w (Wallet.findById)
checkWalletOwnership(req, w) ==
    IF w \notin DOMAIN wallets THEN [status |-> 404, error |-> "Wallet not found"]
    ELSE IF wallets[w].userId # req.user.id /\ req.user.role # "admin"
         THEN [status |-> 403, error |-> "Access denied"]
    ELSE [status |-> 0, error |-> "", user |-> req.user]

\* the middleware in front of POST /mine and GET /validate
AdminRoute(token) ==
    LET req == authenticateToken(token)
    IN IF req.status # 0 THEN req ELSE requireAdmin(req)

\* the middleware in front of the /:walletId routes
WalletRoute(token, w) ==
    LET req == authenticateToken(token)
    IN IF req.status # 0 THEN req ELSE checkWalletOwnership(req, w)

\* ---------------------------------------------------------------- initial
IdleMiner ==
    [pc |-> "idle", pend |-> <<>>, i |-> 0, valid |-> <<>>, newIndex |-> 0,
     previousHash |-> ZeroHash, newBlock |-> 0, src |-> 0, dst |-> 0, res |-> 0,
     by |-> ""]

Init ==
    /\ wallets = <<>>
    /\ txs = <<>>
    /\ blocks = <<>>
    /\ now = 0
    /\ miner = [m \in Miners |-> IdleMiner]
    /\ starter = [s \in Starters |-> "idle"]
    /\ call = <<>>
    /\ result = <<>>
    /\ users = SeededUsers
    /\ auth = IdleAuth

\* time passes between two readings of `new Date()`
Tick ==
    /\ now < MaxClock
    /\ now' = now + 1
    /\ UNCHANGED <<wallets, txs, blocks, miner, starter, call, result, users, auth>>

\* ---------------------------------------------------------- createWallet
createWallet(user) ==
    /\ Len(wallets) < MaxWallets
    /\ LET publicKey == Len(wallets) + 1
           wallet == [userId |-> user, address |-> generateAddress(publicKey),
                      publicKey |-> publicKey, privateKey |-> publicKey,
                      balance |-> InitialBalance]
       IN /\ WalletValid(wallet.balance)
          /\ wallets' = Append(wallets, wallet)
    /\ UNCHANGED <<txs, blocks, now, miner, starter, call, result, users, auth>>

\* ------------------------------------------------------ createTransaction
\* the response status of createTransaction and the document it would store
\* CryptoUtils.isValidAddress: 40 hex characters, as generateAddress makes them
isValidAddress(address) == address > 100

\* transactionSchemas.create, applied by validate() before the controller
ValidBody(fromWallet, toWallet, amount, fee) ==
    /\ isValidAddress(fromWallet)
    /\ isValidAddress(toWallet)
    /\ amount > 0
    /\ fee >= 0

\* the comparison of the two addresses left out
SameWallet_Unchecked(fromWallet, toWallet) == FALSE

\* fromWallet === toWallet
SameWallet(fromWallet, toWallet) == fromWallet = toWallet

\* transactionSchema: amount { min: 0.00000001 }, fee { min: 0 }, checked by save()
TransactionValid(amount, fee) == amount > 0 /\ fee >= 0

\* the Transaction collection without the unique index on hash
DuplicateHash_NoUniqueIndex(hash) == FALSE

\* transactionSchema.hash { unique: true }: save() fails with code 11000
DuplicateHash(hash) == \E t \in DOMAIN txs : txs[t].hash = hash

createTransactionResult(user, fromWallet, toWallet, amount, fee, privateKey, nonce) ==
    LET s == FindWallet(fromWallet)
        d == FindWallet(toWallet)
        data == SignedPayload(fromWallet, toWallet, amount, fee, now, nonce)
        signature == signData(data, privateKey)
        hash == createTransactionHash(fromWallet, toWallet, amount, now, nonce)
    IN IF ~ValidBody(fromWallet, toWallet, amount, fee) THEN [status |-> 422]
       ELSE IF ~isValidAddress(fromWallet) \/ ~isValidAddress(toWallet)
            THEN [status |-> 400]
       ELSE IF SameWallet(fromWallet, toWallet) THEN [status |-> 400]
       ELSE IF s = 0 THEN [status |-> 404]
       ELSE IF wallets[s].userId # user THEN [status |-> 403]
       ELSE IF d = 0 THEN [status |-> 404]
       ELSE IF ~canSpend(wallets[s].balance, amount + fee) THEN [status |-> 400]
       ELSE IF ~KeyParses(privateKey) THEN [status |-> 500]
       ELSE IF ~verifySignature(data, signature, wallets[s].publicKey)
            THEN [status |-> 400]
       ELSE IF ~TransactionValid(amount, fee) THEN [status |-> 500]
       ELSE IF DuplicateHash(hash) THEN [status |-> 409]
       ELSE [status |-> 201,
             doc |-> [userId |-> user, fromWallet |-> fromWallet,
                      toWallet |-> toWallet, amount |-> amount, fee |-> fee,
                      signature |-> signature, timestamp |-> now, hash |-> hash,
                      status |-> "pending", blockId |-> 0]]

createTransaction(user, fromWallet, toWallet, amount, fee, privateKey, nonce) ==
    /\ Len(txs) < MaxTx
    /\ LET r == createTransactionResult(user, fromWallet, toWallet, amount, fee,
                                        privateKey, nonce)
       IN txs' = IF r.status = 201 THEN Append(txs, r.doc) ELSE txs
    /\ UNCHANGED <<wallets, blocks, now, miner, starter, call, result, users, auth>>

\* ------------------------------------------------------- getWalletBalance
\* a sum over the transactions touching the address whatever their status
calculatedBalance_AnyStatus(address) ==
    SumSeq([t \in DOMAIN txs |->
              IF txs[t].toWallet = address THEN txs[t].amount
              ELSE IF txs[t].fromWallet = address
                   THEN 0 - (txs[t].amount + txs[t].fee)
              ELSE 0])

\* the signed sum over the confirmed transactions touching the address
calculatedBalance(address) ==
    SumSeq([t \in DOMAIN txs |->
              IF txs[t].status # "confirmed" THEN 0
              ELSE IF txs[t].toWallet = address THEN txs[t].amount
              ELSE IF txs[t].fromWallet = address
                   THEN 0 - (txs[t].amount + txs[t].fee)
              ELSE 0])

\* the stored balance differs from the recomputed one by more than 1e-8
Drifted(balance, calculated) == balance # calculated

\* getWalletBalance that also counts the transactions that are not confirmed
\* and stores the result without the schema validation
getWalletBalance_Unvalidated(w) ==
    /\ w \in DOMAIN wallets
    /\ LET address == wallets[w].address
           calculated == SumSeq([t \in DOMAIN txs |->
                           IF txs[t].toWallet = address THEN txs[t].amount
                           ELSE IF txs[t].fromWallet = address
                                THEN 0 - (txs[t].amount + txs[t].fee)
                           ELSE 0])
       IN wallets' = IF Drifted(wallets[w].balance, calculated)
                     THEN [wallets EXCEPT ![w].balance = calculated]
                     ELSE wallets
    /\ UNCHANGED <<txs, blocks, now, miner, starter, call, result, users, auth>>

\* the answer of getWalletBalance for wallet w and the balance it leaves
\* stored: wallet.save() runs only on drift and throws on a negative balance,
\* which the catch block answers with 500
getWalletBalanceResult(w) ==
    LET calculated == calculatedBalance(wallets[w].address)
    IN IF ~Drifted(wallets[w].balance, calculated)
       THEN [status |-> 200, current |-> calculated, balance |-> wallets[w].balance]
       ELSE IF WalletValid(calculated)
       THEN [status |-> 200, current |-> calculated, balance |-> calculated]
       ELSE [status |-> 500, current |-> 0, balance |-> wallets[w].balance]

getWalletBalance(w) ==
    /\ w \in DOMAIN wallets
    /\ wallets' = [wallets EXCEPT ![w].balance = getWalletBalanceResult(w).balance]
    /\ UNCHANGED <<txs, blocks, now, miner, starter, call, result, users, auth>>

\* ------------------------------------------------------------- mineBlock
\* Eligible without the signature check
Eligible_NoSignatureCheck(tx) ==
    LET s == FindWallet(tx.fromWallet)
        d == FindWallet(tx.toWallet)
    IN /\ s # 0
       /\ d # 0
       /\ canSpend(wallets[s].balance, tx.amount + tx.fee)

\* the admission test of the sealing loop: both wallets exist, the stored
\* balance of the sender covers amount + fee, and the signature verifies
Eligible(tx) ==
    LET s == FindWallet(tx.fromWallet)
        d == FindWallet(tx.toWallet)
    IN /\ s # 0
       /\ d # 0
       /\ canSpend(wallets[s].balance, tx.amount + tx.fee)
       /\ verifySignature(VerifiedPayload(tx), tx.signature, wallets[s].publicKey)

\* tx.fail() and tx.confirm(blockId) on the document read by getPending: the
\* save writes the changed paths whatever the stored status is by then
fail_NotSaved(t) == txs
fail(t) == [txs EXCEPT ![t].status = "failed"]
confirm(t, blockId) ==
    [txs EXCEPT ![t].status = "confirmed", ![t].blockId = blockId]

\* the block built from the selected transactions
NewBlock(st) ==
    LET hashes == [k \in 1..Len(st.valid) |-> txs[st.valid[k]].hash]
        merkleRoot == calculateMerkleRoot(hashes)
        mined == CryptoMineBlock(st.newIndex, st.previousHash, now, merkleRoot,
                                 MiningDifficulty)
    IN [index |-> st.newIndex, timestamp |-> now, transactions |-> st.valid,
        transactionCount |-> Len(st.valid), previousHash |-> st.previousHash,
        hash |-> mined.hash, nonce |-> mined.nonce, merkleRoot |-> merkleRoot,
        difficulty |-> MiningDifficulty]

\* res.status(status).json(...): the handler is over; res is the status of
\* the last response
Respond(status) == [IdleMiner EXCEPT !.res = status]

\* the check on validTransactions left out
NoValidTransactions_Unchecked(valid) == FALSE

\* validTransactions.length === 0
NoValidTransactions(valid) == valid = <<>>

\* one step of a mineBlock request of req.user, from one await to the next
mineBlock(m, user) ==
    LET st == miner[m] IN
    IF st.pc = "idle" THEN
        \* the request arrives: Transaction.getPending()
        /\ miner' = [miner EXCEPT ![m] =
                       IF getPending = <<>> THEN Respond(400)
                       ELSE [IdleMiner EXCEPT !.pc = "latest", !.pend = getPending,
                                              !.by = user]]
        /\ UNCHANGED <<wallets, txs, blocks, now, starter, call, result, users, auth>>
    ELSE IF st.pc = "latest" THEN
        \* Block.getLatest()
        /\ miner' = [miner EXCEPT ![m] =
                       [st EXCEPT !.pc = "validate", !.i = 1,
                          !.newIndex = IF getLatest = 0 THEN 0
                                       ELSE blocks[getLatest].index + 1,
                          !.previousHash = IF getLatest = 0 THEN ZeroHash
                                           ELSE blocks[getLatest].hash]]
        /\ UNCHANGED <<wallets, txs, blocks, now, starter, call, result, users, auth>>
    ELSE IF st.pc = "validate" THEN
        \* one pending transaction: select it or fail it
        LET t == st.pend[st.i]
            ok == Eligible(txs[t])
            more == st.i < Len(st.pend)
        IN /\ txs' = IF ok THEN txs ELSE fail(t)
           /\ miner' = [miner EXCEPT ![m] =
                          [st EXCEPT !.valid = IF ok THEN Append(st.valid, t)
                                               ELSE st.valid,
                                     !.i = IF more THEN st.i + 1 ELSE 0,
                                     !.pc = IF more THEN "validate" ELSE "seal"]]
           /\ UNCHANGED <<wallets, blocks, now, starter, call, result, users, auth>>
    ELSE IF st.pc = "seal" THEN
        \* Merkle root, proof of work, newBlock.save()
        IF NoValidTransactions(st.valid) THEN
            /\ miner' = [miner EXCEPT ![m] = Respond(400)]
            /\ UNCHANGED <<wallets, txs, blocks, now, starter, call, result, users, auth>>
        ELSE IF ~BlockSaveOk(NewBlock(st)) THEN
            /\ miner' = [miner EXCEPT ![m] = Respond(500)]
            /\ UNCHANGED <<wallets, txs, blocks, now, starter, call, result, users, auth>>
        ELSE
            /\ blocks' = Append(blocks, NewBlock(st))
            /\ miner' = [miner EXCEPT ![m] =
                           [st EXCEPT !.pc = "confirm", !.i = 1,
                                      !.newBlock = Len(blocks) + 1]]
            /\ UNCHANGED <<wallets, txs, now, starter, call, result, users, auth>>
    ELSE IF st.pc = "confirm" THEN
        \* tx.confirm(newBlock._id)
        /\ txs' = confirm(st.valid[st.i], st.newBlock)
        /\ miner' = [miner EXCEPT ![m] = [st EXCEPT !.pc = "load"]]
        /\ UNCHANGED <<wallets, blocks, now, starter, call, result, users, auth>>
    ELSE IF st.pc = "load" THEN
        \* Wallet.findOne for the source and the destination
        LET tx == txs[st.valid[st.i]] IN
        /\ miner' = [miner EXCEPT ![m] =
                       [st EXCEPT !.pc = "debit",
                                  !.src = wallets[FindWallet(tx.fromWallet)].balance,
                                  !.dst = wallets[FindWallet(tx.toWallet)].balance]]
        /\ UNCHANGED <<wallets, txs, blocks, now, starter, call, result, users, auth>>
    ELSE IF st.pc = "debit" THEN
        \* sourceWallet.updateBalance(-(amount + fee)); save() validates min: 0
        LET tx == txs[st.valid[st.i]]
            balance == st.src - (tx.amount + tx.fee)
        IN IF WalletValid(balance) THEN
               /\ wallets' = [wallets EXCEPT
                                ![FindWallet(tx.fromWallet)].balance = balance]
               /\ miner' = [miner EXCEPT ![m] = [st EXCEPT !.pc = "credit"]]
               /\ UNCHANGED <<txs, blocks, now, starter, call, result, users, auth>>
           ELSE
               /\ miner' = [miner EXCEPT ![m] = Respond(500)]
               /\ UNCHANGED <<wallets, txs, blocks, now, starter, call, result, users, auth>>
    ELSE
        \* st.pc = "credit": destinationWallet.updateBalance(amount)
        LET tx == txs[st.valid[st.i]]
            more == st.i < Len(st.valid)
        IN /\ st.pc = "credit"
           /\ wallets' = [wallets EXCEPT
                            ![FindWallet(tx.toWallet)].balance = st.dst + tx.amount]
           /\ miner' = [miner EXCEPT ![m] =
                          IF more THEN [st EXCEPT !.pc = "confirm", !.i = st.i + 1]
                          ELSE Respond(200)]
           /\ UNCHANGED <<txs, blocks, now, starter, call, result, users, auth>>

\* ------------------------------------------------------ initializeGenesis
\* a genesis previousHash of 70 zero characters
GenesisPreviousHash_Seventy == <<"zeros", 70>>

\* the previousHash literal of the genesis block
GenesisPreviousHash == <<"zeros", GenesisPreviousZeros>>

GenesisBlock ==
    [index |-> 0, timestamp |-> 0, transactions |-> <<>>, transactionCount |-> 0,
     previousHash |-> GenesisPreviousHash, hash |-> GenesisHashLiteral, nonce |-> 0,
     merkleRoot |-> calculateMerkleRoot(<<>>), difficulty |-> MiningDifficulty]

\* an initializeGenesis that drops a chain it finds and writes it anew
initializeGenesis_Reset(s) ==
    IF starter[s] = "idle" THEN
        /\ starter' = [starter EXCEPT ![s] = "save"]
        /\ blocks' = <<>>
        /\ UNCHANGED <<wallets, txs, now, miner, call, result, users, auth>>
    ELSE
        /\ starter[s] = "save"
        /\ blocks' = IF BlockSaveOk(GenesisBlock) THEN Append(blocks, GenesisBlock)
                     ELSE blocks
        /\ starter' = [starter EXCEPT ![s] = "idle"]
        /\ UNCHANGED <<wallets, txs, now, miner, call, result, users, auth>>

\* one step of an initializeGenesis call: Block.getGenesis(), then save()
initializeGenesis(s) ==
    IF starter[s] = "idle" THEN
        /\ starter' = [starter EXCEPT ![s] = IF getGenesis # 0 THEN "idle" ELSE "save"]
        /\ UNCHANGED <<wallets, txs, blocks, now, miner, call, result, users, auth>>
    ELSE
        /\ starter[s] = "save"
        /\ blocks' = IF BlockSaveOk(GenesisBlock) THEN Append(blocks, GenesisBlock)
                     ELSE blocks
        /\ starter' = [starter EXCEPT ![s] = "idle"]
        /\ UNCHANGED <<wallets, txs, now, miner, call, result, users, auth>>

\* ----------------------------------------------------- validateBlockchain
\* Block.find().sort({ index: 1 }): the positions of the blocks by index
RECURSIVE SortByIndex(_)
SortByIndex(S) ==
    IF S = {} THEN <<>>
    ELSE LET b == CHOOSE x \in S : \A y \in S : blocks[x].index <= blocks[y].index
         IN <<b>> \o SortByIndex(S \ {b})

\* SignatureErrors that reports nothing
SignatureErrors_None(block) == {}

\* the signature errors of a block, each tagged with the transaction's hash;
\* a transaction whose source wallet is not found is passed over
SignatureErrors(block) ==
    {<<"signature", txs[u].hash>> : u \in
       {u \in Range(block.transactions) :
          /\ FindWallet(txs[u].fromWallet) # 0
          /\ ~verifySignature(VerifiedPayload(txs[u]), txs[u].signature,
                wallets[FindWallet(txs[u].fromWallet)].publicKey)}}

\* the errors of the block at position i (from 0) of the sorted chain
BlockErrors(chain, i) ==
    LET block == blocks[chain[i + 1]]
        hashes == [k \in 1..Len(block.transactions) |->
                     txs[block.transactions[k]].hash]
    IN (IF block.index # i THEN {<<"index", EmptyDigest>>} ELSE {})
       \cup (IF i > 0 /\ block.previousHash # blocks[chain[i]].hash
             THEN {<<"previousHash", EmptyDigest>>} ELSE {})
       \cup (IF block.hash # calculateBlockHash(block.index, block.previousHash,
                                                block.timestamp, block.merkleRoot,
                                                block.nonce)
             THEN {<<"hash", EmptyDigest>>} ELSE {})
       \cup (IF block.merkleRoot # calculateMerkleRoot(hashes)
             THEN {<<"merkleRoot", EmptyDigest>>} ELSE {})
       \cup SignatureErrors(block)

\* a validation loop that gives up at the first block that has errors
RECURSIVE ValidationErrors_StopAtFirst(_, _)
ValidationErrors_StopAtFirst(chain, i) ==
    IF i >= Len(chain) THEN <<>>
    ELSE IF BlockErrors(chain, i) = {}
         THEN ValidationErrors_StopAtFirst(chain, i + 1)
    ELSE <<[blockIndex |-> blocks[chain[i + 1]].index,
            errors |-> BlockErrors(chain, i)]>>

\* validationErrors: one entry for each block that has errors
RECURSIVE ValidationErrors(_, _)
ValidationErrors(chain, i) ==
    IF i >= Len(chain) THEN <<>>
    ELSE (IF BlockErrors(chain, i) = {} THEN <<>>
          ELSE <<[blockIndex |-> blocks[chain[i + 1]].index,
                  errors |-> BlockErrors(chain, i)]>>)
         \o ValidationErrors(chain, i + 1)

\* data.validation of the response
ValidationReport ==
    LET errors == ValidationErrors(SortByIndex(DOMAIN blocks), 0)
    IN [isValid |-> errors = <<>>, totalBlocks |-> Len(blocks), errors |-> errors]

\* a validation that marks the transactions with a signature error failed
validateBlockchain_MarkingFailed ==
    /\ txs' = [t \in DOMAIN txs |->
                 IF \E j \in DOMAIN ValidationReport.errors :
                      <<"signature", txs[t].hash>> \in ValidationReport.errors[j].errors
                 THEN [txs[t] EXCEPT !.status = "failed"]
                 ELSE txs[t]]
    /\ UNCHANGED <<wallets, blocks, now, miner, starter, call, result, users, auth>>

\* the handler reads the store and answers with ValidationReport
validateBlockchain ==
    /\ ValidationReport.totalBlocks = Len(blocks)
    /\ UNCHANGED vars

\* ------------------------------------------------------------------ routes
\* a request goes through the middleware of its route; the handler runs when
\* every middleware has called next(), otherwise the request is answered by
\* the middleware and nothing is written
\* req.user.id of the requests that authenticateToken, and authenticateToken
\* followed by requireAdmin or by checkWalletOwnership, hand on
Authenticated ==
    {authenticateToken(token).user.id :
       token \in {t \in RequestTokens(now) : authenticateToken(t).status = 0}}

AuthenticatedAdmins ==
    {AdminRoute(token).user.id :
       token \in {t \in RequestTokens(now) : AdminRoute(t).status = 0}}

AuthenticatedFor(w) ==
    {WalletRoute(token, w).user.id :
       token \in {t \in RequestTokens(now) : WalletRoute(t, w).status = 0}}

\* a request that one of the middleware answers: no handler runs and nothing
\* is written
answeredByMiddleware ==
    /\ \/ ~ \A token \in RequestTokens(now) : AdminRoute(token).status = 0
       \/ ~ \A token \in RequestTokens(now), w \in 1..MaxWallets :
               WalletRoute(token, w).status = 0
    /\ UNCHANGED vars

\* POST /wallets
createWalletRoute ==
    /\ Len(wallets) < MaxWallets
    /\ \E user \in Authenticated : user \in WalletOwners /\ createWallet(user)

\* POST /transactions; the requests that the handler answers with an error
\* leave the store as it is
createTransactionRoute ==
    /\ Len(txs) < MaxTx
    /\ \/ /\ ~ \A user \in Authenticated, fromWallet \in RequestAddresses,
                  toWallet \in RequestAddresses, amount \in RequestAmounts,
                  fee \in Fees, privateKey \in PrivateKeyInputs,
                  nonce \in Nonces :
                  createTransactionResult(user, fromWallet, toWallet, amount, fee,
                                          privateKey, nonce).status = 201
          /\ UNCHANGED vars
       \/ \E user \in Authenticated, fromWallet \in RequestAddresses,
             toWallet \in RequestAddresses, amount \in RequestAmounts,
             fee \in Fees, privateKey \in PrivateKeyInputs, nonce \in Nonces :
             /\ createTransactionResult(user, fromWallet, toWallet, amount, fee,
                                        privateKey, nonce).status = 201
             /\ createTransaction(user, fromWallet, toWallet, amount, fee,
                                  privateKey, nonce)

\* GET /wallets/:walletId/balance
getWalletBalanceRoute(w) ==
    /\ w \in DOMAIN wallets
    /\ AuthenticatedFor(w) # {}
    /\ getWalletBalance(w)

\* POST /mine: the middleware when the request arrives, then the handler
mineBlockRoute(m) ==
    IF miner[m].pc # "idle" THEN mineBlock(m, miner[m].by)
    ELSE \E user \in AuthenticatedAdmins : mineBlock(m, user)

\* GET /validate
validateBlockchainRoute ==
    /\ AuthenticatedAdmins # {}
    /\ validateBlockchain

Next ==
    \/ Tick
    \/ answeredByMiddleware
    \/ createWalletRoute
    \/ createTransactionRoute
    \/ \E w \in 1..MaxWallets : getWalletBalanceRoute(w)
    \/ \E m \in Miners : mineBlockRoute(m)
    \/ \E s \in Starters : initializeGenesis(s)
    \/ validateBlockchainRoute

Spec == Init /\ [][Next]_vars

\* --------------------------------------------- calls of the CryptoUtils
\* calculateMerkleRoot and mineBlock are functions of their arguments.  Here a
\* call is drawn from the arguments their callers can hand them and the
\* function is applied to it: call is the name and the arguments, result the
\* returned value (empty before the function has returned).
LeafHashes ==
    LET tx(n) == createTransactionHash(generateAddress(1), generateAddress(2),
                                       600, 0, n)
    IN {tx(n) : n \in 1..MaxLeafHashes} \cup {HashPair(tx(1), tx(1))}

MerkleCalls ==
    {<<"calculateMerkleRoot", hashes>> :
        hashes \in UNION {[1..n -> LeafHashes] : n \in 0..MaxLeaves}}

\* the difficulties go up to the one the service mines with; the search
\* does not return for a target that no nonce meets
MineCalls ==
    {<<"mineBlock", index, previousHash, timestamp, merkleRoot, difficulty>> :
        index \in 0..MaxBlocks, previousHash \in {ZeroHash, GenesisHashLiteral},
        timestamp \in 0..MaxClock,
        merkleRoot \in {calculateMerkleRoot(<<>>)} \cup LeafHashes,
        difficulty \in 0..MiningDifficulty}

\* the texts that are signed and verified for one transfer, the signature
\* strings over them, and the public keys, a text that is no key included
Payloads ==
    {SignedPayload(generateAddress(1), generateAddress(2), 600, 1, 0, 0),
     VerifiedPayload([fromWallet |-> generateAddress(1),
                      toWallet |-> generateAddress(2), amount |-> 600, fee |-> 1,
                      timestamp |-> 0])}

SignatureStrings ==
    {[data |-> data, key |-> key, enc |-> enc] :
        data \in Payloads, key \in Keys, enc \in SignatureForms}

VerifyCalls ==
    {<<"verifySignature", data, signature, publicKey>> :
        data \in Payloads, signature \in SignatureStrings,
        publicKey \in PrivateKeyInputs}

InitCrypto ==
    /\ wallets = <<>>
    /\ txs = <<>>
    /\ blocks = <<>>
    /\ now = 0
    /\ miner = [m \in Miners |-> IdleMiner]
    /\ starter = [s \in Starters |-> "idle"]
    /\ call \in MerkleCalls \cup MineCalls \cup VerifyCalls
    /\ result = <<>>
    /\ users = SeededUsers
    /\ auth = IdleAuth

calculateMerkleRootCall ==
    /\ call[1] = "calculateMerkleRoot"
    /\ result' = <<calculateMerkleRoot(call[2])>>
    /\ UNCHANGED <<wallets, txs, blocks, now, miner, starter, call, users, auth>>

CryptoMineBlockCall ==
    /\ call[1] = "mineBlock"
    /\ result' = <<CryptoMineBlock(call[2], call[3], call[4], call[5], call[6])>>
    /\ UNCHANGED <<wallets, txs, blocks, now, miner, starter, call, users, auth>>

verifySignatureCall ==
    /\ call[1] = "verifySignature"
    /\ result' = <<verifySignature(call[2], call[3], call[4])>>
    /\ UNCHANGED <<wallets, txs, blocks, now, miner, starter, call, users, auth>>

NextCrypto ==
    \/ calculateMerkleRootCall
    \/ CryptoMineBlockCall
    \/ verifySignatureCall

SpecCrypto == InitCrypto /\ [][NextCrypto]_vars

\* a function that has been called runs: the call is synchronous
SpecCryptoFair == SpecCrypto /\ WF_vars(NextCrypto)

\* ------------------------------------------- validateBlockchain on a store
\* validateBlockchain is a function of the documents that Block.find(),
\* populate('transactions') and Wallet.findOne return.  For the statements
\* about what it reports on a given chain, the collections start as a
\* correctly built chain of up to MaxBlocks blocks holding up to MaxStoredTx
\* confirmed transactions, and single stored fields are then overwritten
\* from outside the handlers.
SignatureStyles == {"withNonce", "withoutNonce"}

RECURSIVE Ascending(_)
Ascending(S) ==
    IF S = {} THEN <<>>
    ELSE LET x == CHOOSE y \in S : \A z \in S : y <= z
         IN <<x>> \o Ascending(S \ {x})

\* a wallet document as createWallet stores it
StoredWallet(publicKey) ==
    [userId |-> "alice", address |-> generateAddress(publicKey),
     publicKey |-> publicKey, privateKey |-> publicKey, balance |-> InitialBalance]

\* a confirmed transaction document from wallet 1 to wallet 2; its signature is
\* over the text createTransaction signs or over the text validateBlockchain
\* verifies
StoredTransaction(k, style, blockId) ==
    LET from == generateAddress(1)
        to == generateAddress(2)
        amount == CHOOSE a \in Amounts : \A c \in Amounts : a <= c
        fee == CHOOSE f \in Fees : TRUE
        doc == [userId |-> "alice", fromWallet |-> from, toWallet |-> to,
                amount |-> amount, fee |-> fee, signature |-> 0, timestamp |-> 0,
                hash |-> createTransactionHash(from, to, amount, 0, k),
                status |-> "confirmed", blockId |-> blockId]
    IN [doc EXCEPT !.signature =
          IF style = "withNonce"
          THEN signData(SignedPayload(from, to, amount, fee, 0, k), 1)
          ELSE signData(VerifiedPayload(doc), 1)]

\* a block document as mineBlock builds it
StoredBlock(index, previousHash, transactions, pool) ==
    LET hashes == [k \in 1..Len(transactions) |-> pool[transactions[k]].hash]
        merkleRoot == calculateMerkleRoot(hashes)
        mined == CryptoMineBlock(index, previousHash, 0, merkleRoot,
                                 MiningDifficulty)
    IN [index |-> index, timestamp |-> 0, transactions |-> transactions,
        transactionCount |-> Len(transactions), previousHash |-> previousHash,
        hash |-> mined.hash, nonce |-> mined.nonce, merkleRoot |-> merkleRoot,
        difficulty |-> MiningDifficulty]

\* the first n blocks of the chain in which transaction k is in block place[k]
RECURSIVE StoredChain(_, _, _)
StoredChain(place, n, pool) ==
    IF n = 0 THEN <<>>
    ELSE LET prev == StoredChain(place, n - 1, pool)
         IN Append(prev,
                   StoredBlock(n - 1,
                               IF n = 1 THEN ZeroHash ELSE prev[n - 1].hash,
                               Ascending({k \in DOMAIN place : place[k] = n}),
                               pool))

InitStored ==
    \E n \in 1..MaxBlocks, count \in 0..MaxStoredTx :
      \E place \in [1..count -> 1..n], style \in [1..count -> SignatureStyles],
         senderKnown \in BOOLEAN :
        /\ \A j \in 1..count, k \in 1..count : j < k => place[j] <= place[k]
        /\ wallets = IF senderKnown THEN <<StoredWallet(1), StoredWallet(2)>>
                     ELSE <<StoredWallet(2)>>
        /\ txs = [k \in 1..count |-> StoredTransaction(k, style[k], place[k])]
        /\ blocks = StoredChain(place, n, txs)
        /\ now = 0
        /\ miner = [m \in Miners |-> IdleMiner]
        /\ starter = [s \in Starters |-> "idle"]
        /\ call = <<>>
        /\ result = <<>>
        /\ users = SeededUsers
        /\ auth = IdleAuth

\* a digest that differs from h in one character
Flipped(h) == <<"flipped", h>>

\* one hex character of the stored hash of block b is changed
FlipHash(b) ==
    /\ blocks[b].hash[1] # "flipped"
    /\ blocks' = [blocks EXCEPT ![b].hash = Flipped(@)]
    /\ UNCHANGED <<wallets, txs, now, miner, starter, call, result, users, auth>>

\* the transactions at places k and k + 1 of block b change places
SwapTransactions(b, k) ==
    /\ k + 1 <= Len(blocks[b].transactions)
    /\ blocks' = [blocks EXCEPT ![b].transactions =
                     [@ EXCEPT ![k] = blocks[b].transactions[k + 1],
                               ![k + 1] = blocks[b].transactions[k]]]
    /\ UNCHANGED <<wallets, txs, now, miner, starter, call, result, users, auth>>

\* the stored index of block b is set to a number no block has
MoveIndex(b) ==
    /\ \A c \in DOMAIN blocks : blocks[c].index < Len(blocks)
    /\ blocks' = [blocks EXCEPT ![b].index = Len(blocks)]
    /\ UNCHANGED <<wallets, txs, now, miner, starter, call, result, users, auth>>

NextStored ==
    \/ \E b \in DOMAIN blocks : FlipHash(b)
    \/ \E b \in DOMAIN blocks, k \in 1..MaxStoredTx : SwapTransactions(b, k)
    \/ \E b \in DOMAIN blocks : MoveIndex(b)
    \/ validateBlockchain

SpecStored == InitStored /\ [][NextStored]_vars

\* ================================================================ claims
\* the transaction was signed with the private key of its source wallet
OwnKeySigned(tx) ==
    /\ FindWallet(tx.fromWallet) # 0
    /\ tx.signature.key = wallets[FindWallet(tx.fromWallet)].privateKey

\* the stored balance of the sender covers amount + fee
Covered(tx) ==
    /\ FindWallet(tx.fromWallet) # 0
    /\ FindWallet(tx.toWallet) # 0
    /\ canSpend(wallets[FindWallet(tx.fromWallet)].balance, tx.amount + tx.fee)

\* miner m takes its step on the pending transaction t
Examines(m, t) ==
    /\ miner[m].pc = "validate"
    /\ miner[m].pend[miner[m].i] = t
    /\ miner'[m] # miner[m]

\* C1: when a mineBlock request examines a pending transaction that
\* createTransaction signed with the source wallet's own private key and
\* whose sender balance covers amount + fee, the transaction passes the
\* signature check: it is selected for the block and is not marked failed.
C1_SignedTransactionIsSelected ==
    [][\A m \in Miners : \A t \in DOMAIN txs :
         (Examines(m, t) /\ txs[t].status = "pending" /\ OwnKeySigned(txs[t])
            /\ Covered(txs[t]))
         => (t \in Range(miner'[m].valid) /\ txs'[t].status # "failed")]_vars

\* Since VerifiedPayload lacks the nonce that SignedPayload ends with, no
\* sealing request ever selects a transaction: no transaction is confirmed,
\* no block other than the genesis block is stored and the commit steps of
\* mineBlock are never taken.
SealingNeverSelects ==
    /\ \A m \in Miners : miner[m].valid = <<>> /\ miner[m].pc \notin
                               {"confirm", "load", "debit", "credit"}
    /\ \A t \in DOMAIN txs : txs[t].status # "confirmed"
    /\ \A b \in DOMAIN blocks : blocks[b].transactions = <<>>

\* C4: the status of a transaction changes only from pending to confirmed or
\* from pending to failed; a confirmed or failed transaction never changes.
C4_StatusMonotonic ==
    [][\A t \in DOMAIN txs :
         txs'[t].status # txs[t].status
         => (txs[t].status = "pending"
             /\ txs'[t].status \in {"confirmed", "failed"})]_vars

\* C4 witness: a transaction already failed by one mineBlock request is the
\* next one examined by another request that read it while it was pending.
C4_FailedSeenByConcurrentSealing ==
    \E m \in Miners : \E t \in DOMAIN txs :
        /\ miner[m].pc = "validate"
        /\ miner[m].pend[miner[m].i] = t
        /\ txs[t].status = "failed"

\* a mineBlock request between reading the pending transactions and its answer
Sealing(m) == miner[m].pc # "idle"

\* C5: at most one mineBlock execution is in progress at a time.
C5_OneSealingInFlight == Cardinality({m \in Miners : Sealing(m)}) <= 1

\* C7: whenever no mineBlock request is in progress, the stored balance of
\* every wallet equals the amounts it received in confirmed transactions minus
\* amount + fee of the confirmed transactions it sent.
C7_BalanceIsReconciled ==
    (\A m \in Miners : ~Sealing(m))
    => \A w \in DOMAIN wallets :
         wallets[w].balance = calculatedBalance(wallets[w].address)

\* C8: in every reachable state, after any sequence of createWallet,
\* createTransaction, mineBlock and getWalletBalance, the stored balance of
\* every wallet is greater than or equal to 0.
C8_BalanceNeverNegative == \A w \in DOMAIN wallets : wallets[w].balance >= 0

\* C8 witness: a wallet has been brought down to 0 by getWalletBalance after
\* it sent a transaction, and a mineBlock request has refused that
\* transaction.
C8_ReconciledToZeroAndRefused ==
    \E w \in DOMAIN wallets : \E t \in DOMAIN txs :
        /\ wallets[w].balance = 0
        /\ txs[t].fromWallet = wallets[w].address
        /\ txs[t].status = "failed"

\* the stored blocks by ascending index
Chain == SortByIndex(DOMAIN blocks)

\* C9: the stored blocks sorted by index have the indices 0..n-1 without
\* duplicates, block 0 has the all-zero previousHash, every later block has
\* the hash of its predecessor as previousHash, and the index and previousHash
\* a mineBlock request holds for its new block are those of a stored head
\* (or 0 and the all-zero hash).
C9_ChainContiguousAndLinked ==
    /\ \A i \in 1..Len(Chain) : blocks[Chain[i]].index = i - 1
    /\ \A i \in 1..Len(Chain) :
         blocks[Chain[i]].previousHash =
           IF i = 1 THEN ZeroHash ELSE blocks[Chain[i - 1]].hash
    /\ \A m \in Miners :
         miner[m].pc \in {"validate", "seal"}
         => \/ miner[m].newIndex = 0 /\ miner[m].previousHash = ZeroHash
            \/ \E b \in DOMAIN blocks :
                 /\ miner[m].newIndex = blocks[b].index + 1
                 /\ miner[m].previousHash = blocks[b].hash

\* C9 witness: the genesis block is stored, a second initializeGenesis call
\* that found no genesis is about to save its own, and a mineBlock request
\* has read the head.
C9_RacingGenesisAndSealing ==
    /\ blocks # <<>>
    /\ \E s \in Starters : starter[s] = "save"
    /\ \E m \in Miners : miner[m].pc = "seal" /\ miner[m].newIndex = 1

\* C10: the chain validates with zero errors.
C10_BuiltChainValidates ==
    ValidationReport.isValid /\ ValidationReport.errors = <<>>
\* ------------------------------------------------- validation reports
\* the error kinds that appear anywhere in the report
ReportKinds ==
    UNION {{e[1] : e \in ValidationReport.errors[j].errors} :
             j \in DOMAIN ValidationReport.errors}

\* the report entry of the block of stored index `index` with one error `kind`
OneError(index, kind) == [blockIndex |-> index, errors |-> {<<kind, EmptyDigest>>}]

\* C11 as written: on a chain that validates, changing the stored hash of
\* any one block makes validateBlockchain report a hash mismatch and no other
\* kind of error on any block, and swapping two transactions inside a block
\* makes it report a Merkle-root mismatch and no other kind.
C11_SingleTamperSingleKind ==
    [][ValidationReport.isValid
         => /\ \A b \in DOMAIN blocks : FlipHash(b) => ReportKinds' = {"hash"}
            /\ \A b \in DOMAIN blocks, k \in 1..MaxStoredTx :
                 SwapTransactions(b, k) => ReportKinds' = {"merkleRoot"}]_vars

\* C11 amended: on a chain that validates, changing the stored hash of block b
\* makes validateBlockchain report a hash mismatch on b and, when b has a
\* successor, a previous-hash mismatch on the successor, and nothing else;
\* swapping two transactions inside a block makes it report exactly one
\* Merkle-root mismatch, on that block.
C11_TamperReportsMismatch ==
    [][ValidationReport.isValid
         => /\ \A b \in DOMAIN blocks :
                 FlipHash(b)
                 => ValidationReport'.errors =
                      <<OneError(b - 1, "hash")>>
                      \o (IF b < Len(blocks) THEN <<OneError(b, "previousHash")>>
                          ELSE <<>>)
            /\ \A b \in DOMAIN blocks, k \in 1..MaxStoredTx :
                 SwapTransactions(b, k)
                 => ValidationReport'.errors = <<OneError(b - 1, "merkleRoot")>>]_vars

\* C11 witness: only the hash of a block that has a successor was changed, and
\* the report has the hash mismatch and the successor's previous-hash mismatch.
C11_InnerHashFlipped ==
    \E b \in DOMAIN blocks :
        /\ b < Len(blocks)
        /\ blocks[b].hash[1] = "flipped"
        /\ \A c \in DOMAIN blocks : c # b => blocks[c].hash[1] # "flipped"
        /\ ValidationReport.errors =
             <<OneError(b - 1, "hash"), OneError(b, "previousHash")>>

\* the block at place p (from 1) of the sorted chain fails one of the checks
FailsACheck(p) ==
    LET block == blocks[Chain[p]] IN
    \/ block.index # p - 1
    \/ p > 1 /\ block.previousHash # blocks[Chain[p - 1]].hash
    \/ block.hash # calculateBlockHash(block.index, block.previousHash,
                                       block.timestamp, block.merkleRoot, block.nonce)
    \/ block.merkleRoot #
         calculateMerkleRoot([k \in 1..Len(block.transactions) |->
                                txs[block.transactions[k]].hash])
    \/ \E u \in Range(block.transactions) :
         /\ FindWallet(txs[u].fromWallet) # 0
         /\ ~verifySignature(VerifiedPayload(txs[u]), txs[u].signature,
                             wallets[FindWallet(txs[u].fromWallet)].publicKey)

\* the stored indices of the blocks the report has an entry for, in order
ReportedBlocks ==
    [j \in DOMAIN ValidationReport.errors |-> ValidationReport.errors[j].blockIndex]

\* C12: validateBlockchain checks every block of the chain even when an
\* earlier block has errors: the report has one entry for each block that
\* fails at least one of the index, linkage, hash, Merkle or signature checks
\* and no entry for any other block, and isValid is true exactly when the
\* report has no entries.
C12_EveryFailingBlockReported ==
    LET failing == Ascending({p \in DOMAIN Chain : FailsACheck(p)})
    IN /\ ReportedBlocks = [j \in DOMAIN failing |-> blocks[Chain[failing[j]]].index]
       /\ ValidationReport.isValid <=> ValidationReport.errors = <<>>
       /\ ValidationReport.isValid <=> failing = <<>>

\* C12 witness: the first and the third block of a stored chain have errors
\* and the block between them has none.
C12_ErrorsAroundSoundBlock ==
    /\ Len(blocks) = 3
    /\ ReportedBlocks = <<0, 2>>
    /\ ~ValidationReport.isValid

\* C13: validateBlockchain leaves every block, every transaction (status,
\* blockId) and every wallet (balance) unchanged, whatever errors it finds.
C13_ValidationReadOnly ==
    [][validateBlockchain
         => /\ blocks' = blocks
            /\ txs' = txs
            /\ wallets' = wallets]_vars

\* C13 witness: the store validateBlockchain runs on has hash, linkage, Merkle
\* and signature errors, and its transactions are still confirmed.
C13_ManyErrorsFound ==
    /\ {"hash", "previousHash", "merkleRoot", "signature"} \subseteq ReportKinds
    /\ \A t \in DOMAIN txs : txs[t].status = "confirmed" /\ txs[t].blockId # 0

\* the signature of transaction u does not verify against the public key its
\* source wallet has now
FailsSignature(u) ==
    /\ FindWallet(txs[u].fromWallet) # 0
    /\ ~verifySignature(VerifiedPayload(txs[u]), txs[u].signature,
                        wallets[FindWallet(txs[u].fromWallet)].publicKey)

\* the report entry of the block of stored index `index` names the error
Reported(index, error) ==
    \E j \in DOMAIN ValidationReport.errors :
        /\ ValidationReport.errors[j].blockIndex = index
        /\ error \in ValidationReport.errors[j].errors

NothingToSeal(m) ==
    \/ miner[m].pc = "idle" /\ getPending = <<>>
    \/ miner[m].pc = "seal" /\ miner[m].valid = <<>>

\* C15: when mineBlock finds no pending transaction, or every pending
\* transaction fails the eligibility check, it answers with an error (400),
\* stores no block, and no step of the request changes the set of blocks or
\* a wallet balance.
C15_NothingEligibleNoBlock ==
    [][\A m \in Miners :
         (\E user \in UserIds : mineBlock(m, user))
         => /\ NothingToSeal(m)
               => /\ miner'[m].pc = "idle"
                  /\ miner'[m].res = 400
                  /\ blocks' = blocks
                  /\ wallets' = wallets
            /\ miner[m].pc \in {"idle", "latest", "validate"}
               => blocks' = blocks /\ wallets' = wallets]_vars

\* C15 witness: a mineBlock request has answered 400 after it failed every
\* pending transaction, and no block is stored.
C15_AllFailedAnswered ==
    \E m \in Miners :
        /\ miner[m].pc = "idle" /\ miner[m].res = 400
        /\ Len(txs) = MaxTx
        /\ \A t \in DOMAIN txs : txs[t].status = "failed"
        /\ blocks = <<>>

\* at sealing time the sender cannot cover amount + fee, or the signature
\* does not verify
Refused(t) == ~Covered(txs[t]) \/ FailsSignature(t)

\* C16: a pending transaction whose sender cannot cover amount + fee, or whose
\* signature does not verify, at sealing time is marked failed by mineBlock,
\* is not listed in the block being built and keeps a null block reference;
\* a failed transaction is never selected for or listed in a later block; and
\* the request goes on with the remaining pending transactions and stores the
\* block of those it selected.
C16_RefusedIsFailedAndExcluded ==
    [][\A m \in Miners :
         /\ \A t \in DOMAIN txs :
              /\ (Examines(m, t) /\ Refused(t))
                 => /\ txs'[t].status = "failed"
                    /\ txs'[t].blockId = 0
                    /\ miner'[m].valid = miner[m].valid
                    /\ IF miner[m].i < Len(miner[m].pend)
                       THEN miner'[m].pc = "validate" /\ miner'[m].i = miner[m].i + 1
                       ELSE miner'[m].pc = "seal"
              /\ txs[t].status = "failed"
                 => /\ txs'[t].status = "failed" /\ txs'[t].blockId = 0
                    /\ t \in Range(miner'[m].valid) => t \in Range(miner[m].valid)
                    /\ \A b \in DOMAIN blocks' : t \notin Range(blocks'[b].transactions)
         /\ ((\E user \in UserIds : mineBlock(m, user)) /\ miner[m].pc = "seal" /\ miner[m].valid # <<>>)
            => \/ miner'[m].res = 500 /\ blocks' = blocks
               \/ /\ Len(blocks') = Len(blocks) + 1
                  /\ blocks'[Len(blocks')].transactions = miner[m].valid]_vars

\* C16 witness: a mineBlock request has marked the first of two pending
\* transactions failed and is about to examine the second one.
C16_FailedThenNextExamined ==
    \E m \in Miners :
        /\ miner[m].pc = "validate" /\ miner[m].i = 2
        /\ miner[m].pend = <<1, 2>>
        /\ txs[1].status = "failed" /\ txs[1].blockId = 0
        /\ txs[2].status = "pending"
        /\ miner[m].valid = <<>>

\* -------------------------------------------------------------- admission
\* C17: createTransaction does not reject a structurally valid transaction
\* because the balance of the sender is below amount + fee: the transaction
\* is stored as pending (and only failed later by mineBlock).
C17_AdmissionIgnoresBalance ==
    \A f \in Keys, t \in Keys, amount \in Amounts, fee \in Fees, nonce \in Nonces :
        LET from == generateAddress(f)
            to == generateAddress(t)
            owner == wallets[FindWallet(from)].userId
            r == createTransactionResult(owner, from, to, amount, fee, f, nonce)
        IN (/\ f # t
            /\ FindWallet(from) # 0
            /\ FindWallet(to) # 0
            /\ ~canSpend(wallets[FindWallet(from)].balance, amount + fee)
            /\ \A u \in DOMAIN txs :
                 txs[u].hash # createTransactionHash(from, to, amount, now, nonce))
           => r.status = 201

\* transaction t is pending and is not in the pending list that the running
\* mineBlock request m read: it was stored after m read the list
AdmittedDuring(m, t) ==
    /\ miner[m].pc # "idle"
    /\ t \notin Range(miner[m].pend)
    /\ txs[t].status = "pending"

\* C18: a transaction stored as pending by createTransaction while a
\* mineBlock request is in progress is, as long as that request runs and
\* when it finishes, either still pending or confirmed in the block of that
\* request; it is not dropped.
C18_AdmittedMidSealKept ==
    [][\A m \in Miners : \A t \in DOMAIN txs :
         AdmittedDuring(m, t)
         => \/ txs'[t].status = "pending"
            \/ /\ txs'[t].status = "confirmed"
               /\ miner[m].newBlock # 0
               /\ txs'[t].blockId = miner[m].newBlock]_vars

\* C20: every stored transaction has fromWallet different from toWallet and
\* amount > 0, and createTransaction with equal source and destination
\* addresses, or with an address that is not 40 hex characters, is rejected
\* and stores no transaction.
C20_StoredTransactionsWellFormed ==
    /\ \A t \in DOMAIN txs :
         txs[t].fromWallet # txs[t].toWallet /\ txs[t].amount > 0
    /\ \A user \in Users, fromWallet \in RequestAddresses,
          toWallet \in RequestAddresses, amount \in RequestAmounts, fee \in Fees,
          privateKey \in PrivateKeyInputs, nonce \in Nonces :
         (fromWallet = toWallet \/ BadAddress \in {fromWallet, toWallet})
         => createTransactionResult(user, fromWallet, toWallet, amount, fee,
                                    privateKey, nonce).status \in {400, 422}

\* C20 witness: a transaction is stored, and in that state the owner's request
\* with equal addresses is answered 400 and one with a malformed address 422.
C20_AcceptedAndRejected ==
    /\ txs # <<>>
    /\ \E k \in Keys :
         /\ FindWallet(generateAddress(k)) # 0
         /\ createTransactionResult(wallets[FindWallet(generateAddress(k))].userId,
                                    generateAddress(k), generateAddress(k),
                                    600, 1, k, 0).status = 400
         /\ createTransactionResult(wallets[FindWallet(generateAddress(k))].userId,
                                    generateAddress(k), BadAddress,
                                    600, 1, k, 0).status = 422

\* stored hashes differ pairwise, and a request that reaches save() is
\* answered 409 exactly when its hash is the hash of a stored transaction
HashesUniqueAndConflictsAnswered ==
    /\ \A t \in DOMAIN txs, u \in DOMAIN txs : t # u => txs[t].hash # txs[u].hash
    /\ \A user \in Users, fromWallet \in RequestAddresses,
          toWallet \in RequestAddresses, amount \in RequestAmounts, fee \in Fees,
          privateKey \in PrivateKeyInputs, nonce \in Nonces :
         LET r == createTransactionResult(user, fromWallet, toWallet, amount, fee,
                                          privateKey, nonce)
             taken == \E t \in DOMAIN txs :
                        txs[t].hash = createTransactionHash(fromWallet, toWallet,
                                                            amount, now, nonce)
         IN r.status \in {201, 409} => (r.status = 409 <=> taken)

\* C21: no two stored transactions have the same hash: a createTransaction
\* that gets as far as saving a transaction whose hash equals the hash of a
\* stored transaction is answered 409, and the transaction
\* store changes only by one new document with a fresh hash, with every stored
\* transaction and every balance left as it was.
C21_TransactionHashUnique ==
    /\ []HashesUniqueAndConflictsAnswered
    /\ [][Len(txs') # Len(txs)
           => /\ Len(txs') = Len(txs) + 1
              /\ \A t \in DOMAIN txs :
                   txs'[t] = txs[t] /\ txs[t].hash # txs'[Len(txs')].hash
              /\ wallets' = wallets]_vars

\* C21 witness: a transaction is stored and pending, and the same request made
\* again within the same second is answered 409.
C21_RepeatedRequestConflicts ==
    \E t \in DOMAIN txs :
        /\ txs[t].status = "pending"
        /\ createTransactionResult(txs[t].userId, txs[t].fromWallet, txs[t].toWallet,
                                   txs[t].amount, txs[t].fee, txs[t].signature.key,
                                   0).status = 409

\* C22: the block with index 0, if there is one, is the genesis block: its
\* previousHash is the all-zero sentinel and it has no transactions; no step
\* of mineBlock stores a block with index 0 that carries transactions.
C22_BlockZeroIsGenesis ==
    \A b \in DOMAIN blocks :
        blocks[b].index = 0 =>
            /\ blocks[b].previousHash[1] = "zeros"
            /\ blocks[b].transactions = <<>>
            /\ blocks[b].transactionCount = 0

\* C22 witness: the genesis block is stored while a mineBlock request that
\* read the chain when it was still empty holds index 0 for its own block and
\* has examined its pending transactions.
C22_SealingHoldsIndexZero ==
    /\ \E b \in DOMAIN blocks : blocks[b].index = 0
    /\ \E m \in Miners :
          /\ miner[m].pc = "seal"
          /\ miner[m].newIndex = 0
          /\ miner[m].pend # <<>>

\* a step of initializeGenesis that stores a block stores one of index 0, with
\* a previousHash of n zero characters, no transactions and the Merkle root of
\* the empty sequence; a step of mineBlock that reads an empty chain takes the
\* same string as previousHash
GenesisAsStated(n) ==
    /\ \A s \in Starters :
          starter[s] = "save" /\ starter'[s] = "idle" /\ blocks' # blocks
              => LET block == blocks'[Len(blocks')]
                 IN /\ Len(blocks') = Len(blocks) + 1
                    /\ block.index = 0
                    /\ block.previousHash = <<"zeros", n>>
                    /\ block.transactions = <<>>
                    /\ block.transactionCount = 0
                    /\ block.merkleRoot = calculateMerkleRoot(<<>>)
    /\ \A m \in Miners :
          miner[m].pc = "latest" /\ miner'[m].pc = "validate" /\ blocks = <<>>
              => /\ miner'[m].newIndex = 0
                 /\ miner'[m].previousHash = <<"zeros", n>>

\* C23 as stated: the genesis block written by initializeGenesis has index 0,
\* a previousHash of 70 zero characters, no transactions and the Merkle root
\* of the empty sequence, and mineBlock on an empty chain uses the same string.
C23_GenesisSeventyZeros == [][GenesisAsStated(70)]_vars

\* C23 amended: the genesis block written by initializeGenesis has index 0, a
\* previousHash of 64 zero characters, no transactions and the Merkle root of
\* the empty sequence, and mineBlock on an empty chain uses the same string.
C23_GenesisSixtyFourZeros == [][GenesisAsStated(64)]_vars

\* C23 witness: initializeGenesis has stored its block, and a mineBlock
\* request that read the chain while it was empty holds a previousHash equal
\* to the one of the stored genesis block.
C23_GenesisAndSentinelAgree ==
    \E b \in DOMAIN blocks, m \in Miners :
        /\ blocks[b].hash = GenesisHashLiteral
        /\ miner[m].pc = "validate"
        /\ miner[m].newIndex = 0
        /\ miner[m].previousHash = blocks[b].previousHash

\* C24: a transaction's blockId is null while its status is pending or
\* failed, and when its status is confirmed it names a stored block whose
\* transaction list contains the transaction.
C24_BlockReferenceFollowsStatus ==
    \A t \in DOMAIN txs :
        /\ txs[t].status \in {"pending", "failed"} => txs[t].blockId = 0
        /\ txs[t].status = "confirmed"
              => /\ txs[t].blockId \in DOMAIN blocks
                 /\ t \in Range(blocks[txs[t].blockId].transactions)

\* C24 witness: one mineBlock request has failed a transaction and another
\* request is under way while a second transaction is pending; neither
\* transaction has a block reference.
C24_FailedAndPendingUnreferenced ==
    /\ \E t \in DOMAIN txs : txs[t].status = "failed" /\ txs[t].blockId = 0
    /\ \E t \in DOMAIN txs : txs[t].status = "pending" /\ txs[t].blockId = 0
    /\ \E m \in Miners : miner[m].pc = "validate" /\ blocks # <<>>

\* C25: the chain is append-only: no step of createTransaction, mineBlock,
\* validateBlockchain, getWalletBalance or initializeGenesis changes a field
\* of a stored block or removes one, and the number of blocks never decreases.
C25_ChainAppendOnly ==
    [][/\ Len(blocks') >= Len(blocks)
       /\ \A b \in DOMAIN blocks : blocks'[b] = blocks[b]]_vars

\* C25 witness: with the genesis block stored, a mineBlock request has read
\* it as the latest block and failed a transaction, and getWalletBalance has
\* overwritten a stored balance; the stored block is as it was written.
C25_HandlersRanOverStoredChain ==
    /\ blocks = <<GenesisBlock>>
    /\ \E m \in Miners : miner[m].pc = "seal" /\ miner[m].newIndex = 1
    /\ \E t \in DOMAIN txs : txs[t].status = "failed"
    /\ \E w \in DOMAIN wallets : wallets[w].balance # InitialBalance

\* the balance as the statement defines it: what the confirmed transactions
\* pay to the address less amount + fee of the confirmed ones it sent
ReceivedConfirmed(address) ==
    SumSeq([t \in DOMAIN txs |->
              IF txs[t].status = "confirmed" /\ txs[t].toWallet = address
              THEN txs[t].amount ELSE 0])

SentConfirmed(address) ==
    SumSeq([t \in DOMAIN txs |->
              IF txs[t].status = "confirmed" /\ txs[t].fromWallet = address
              THEN txs[t].amount + txs[t].fee ELSE 0])

\* in every state getWalletBalance answers, for every wallet, with that
\* balance, and leaves it stored exactly when the stored one differs from it
BalanceAnswered ==
    \A w \in DOMAIN wallets :
        LET reference == ReceivedConfirmed(wallets[w].address)
                           - SentConfirmed(wallets[w].address)
            r == getWalletBalanceResult(w)
        IN /\ r.status = 200
           /\ r.current = reference
           /\ r.balance = IF wallets[w].balance # reference THEN reference
                          ELSE wallets[w].balance

\* C26: getWalletBalance recomputes the balance as the confirmed amounts
\* received minus amount + fee of the confirmed transactions sent, returns
\* that value, and overwrites the stored balance with it exactly when the two
\* differ (amounts are whole numbers here, so any difference exceeds 1e-8);
\* otherwise the stored balance is left unchanged.
C26_BalanceRecomputedAndStored ==
    /\ []BalanceAnswered
    /\ [][wallets' # wallets /\ Len(wallets') = Len(wallets) /\ miner' = miner
            => \E w \in DOMAIN wallets :
                 /\ wallets[w].balance # ReceivedConfirmed(wallets[w].address)
                                           - SentConfirmed(wallets[w].address)
                 /\ wallets' = [wallets EXCEPT ![w].balance =
                                   ReceivedConfirmed(wallets[w].address)
                                     - SentConfirmed(wallets[w].address)]]_vars

\* C26 witness: getWalletBalance has overwritten the balance of one wallet
\* with the recomputed one, a second wallet still has the balance it was
\* created with, and a transaction between them is stored.
C26_OneWalletReconciled ==
    \E v \in DOMAIN wallets, w \in DOMAIN wallets :
        /\ wallets[v].balance = calculatedBalance(wallets[v].address)
        /\ wallets[w].balance = InitialBalance
        /\ getWalletBalanceResult(w).balance # wallets[w].balance
        /\ \E t \in DOMAIN txs : txs[t].fromWallet = wallets[w].address
                                   /\ txs[t].toWallet = wallets[v].address

\* one level of the tree as the statement builds it: the hashes taken two by
\* two from the left, the last of an odd number paired with itself
RECURSIVE PairUp(_)
PairUp(s) ==
    IF s = <<>> THEN <<>>
    ELSE IF Len(s) = 1 THEN <<HashPair(s[1], s[1])>>
    ELSE <<HashPair(s[1], s[2])>> \o PairUp(SubSeq(s, 3, Len(s)))

RECURSIVE ReferenceRoot(_)
ReferenceRoot(s) ==
    IF s = <<>> THEN EmptyDigest
    ELSE IF Len(s) = 1 THEN Head(s)
    ELSE ReferenceRoot(PairUp(s))

\* C27: what calculateMerkleRoot returns equals the reference definition: the
\* digest of the empty string for the empty sequence, the hash itself for a
\* single hash, and otherwise the result of hashing consecutive pairs
\* left||right (the last hash of an odd level with itself) level after level
\* until one hash remains.
C27_MerkleRootIsReference ==
    (call # <<>> /\ call[1] = "calculateMerkleRoot" /\ result # <<>>)
        => /\ result[1] = ReferenceRoot(call[2])
           /\ call[2] = <<>> => result[1] = EmptyDigest
           /\ Len(call[2]) = 1 => result[1] = call[2][1]

\* C27 witness: calculateMerkleRoot has returned for four different hashes,
\* a root over two levels of pairs.
C27_TwoLevelsComputed ==
    /\ call # <<>> /\ call[1] = "calculateMerkleRoot" /\ result # <<>>
    /\ Len(call[2]) = 4
    /\ Cardinality(Range(call[2])) = 4
    /\ result[1] = HashPair(HashPair(call[2][1], call[2][2]),
                            HashPair(call[2][3], call[2][4]))

\* C28: for three hashes a, b, c the root of [a, b, c] equals the root of
\* [a, b, c, c].
C28_OddLevelDuplicatesLast ==
    (call # <<>> /\ call[1] = "calculateMerkleRoot" /\ result # <<>>
       /\ Len(call[2]) = 3)
        => result[1] = calculateMerkleRoot(Append(call[2], call[2][3]))

\* C28 witness: calculateMerkleRoot has returned for three different hashes.
C28_ThreeHashesComputed ==
    /\ call # <<>> /\ call[1] = "calculateMerkleRoot" /\ result # <<>>
    /\ Len(call[2]) = 3
    /\ Cardinality(Range(call[2])) = 3

\* the sequences that a permutation of the positions makes of s
Reorderings(s) ==
    {[i \in 1..Len(s) |-> s[f[i]]] : f \in Permutations(1..Len(s))}

\* C29: calculateMerkleRoot is deterministic and order-sensitive: a repeated
\* call with the same sequence returns the same root, and for a sequence of
\* two hashes or more every reordering that changes the sequence has a
\* different root.
C29_DeterministicAndOrderSensitive ==
    /\ []((call # <<>> /\ call[1] = "calculateMerkleRoot" /\ result # <<>>)
            => /\ result[1] = calculateMerkleRoot(call[2])
               /\ Len(call[2]) >= 2
                    => \A p \in Reorderings(call[2]) :
                          p # call[2] => calculateMerkleRoot(p) # result[1])
    /\ [][(call # <<>> /\ call[1] = "calculateMerkleRoot" /\ result # <<>>)
            => result' = result]_vars

\* C29 witness: calculateMerkleRoot has returned for a sequence of three
\* hashes, two of them different, that has reorderings which change it.
C29_ReorderableComputed ==
    /\ call # <<>> /\ call[1] = "calculateMerkleRoot" /\ result # <<>>
    /\ Len(call[2]) = 3
    /\ call[2][1] = call[2][3]
    /\ call[2][1] # call[2][2]

\* the block that BlockchainController.mineBlock builds from the arguments it
\* handed to CryptoUtils.mineBlock and the result
SealedBlock ==
    [index |-> call[2], previousHash |-> call[3], timestamp |-> call[4],
     merkleRoot |-> call[5], difficulty |-> call[6],
     hash |-> result[1].hash, nonce |-> result[1].nonce]

\* C30: when CryptoUtils.mineBlock returns (hash, nonce) for difficulty d,
\* the hash starts with at least d zero characters and calculateBlockHash
\* with the returned nonce gives the returned hash; the block built from the
\* result stores a hash that meets its stored difficulty and is reproduced
\* from its stored fields.
C30_MinedHashMeetsTarget ==
    (call # <<>> /\ call[1] = "mineBlock" /\ result # <<>>)
        => /\ LeadingZeros(result[1].hash) >= call[6]
           /\ calculateBlockHash(call[2], call[3], call[4], call[5],
                                 result[1].nonce) = result[1].hash
           /\ LeadingZeros(SealedBlock.hash) >= SealedBlock.difficulty
           /\ SealedBlock.hash =
                 calculateBlockHash(SealedBlock.index, SealedBlock.previousHash,
                                    SealedBlock.timestamp, SealedBlock.merkleRoot,
                                    SealedBlock.nonce)

\* C30 witness: CryptoUtils.mineBlock has returned for the difficulty the
\* service mines with after trying more than one nonce.
C30_SearchWentPastFirstNonce ==
    /\ call # <<>> /\ call[1] = "mineBlock" /\ result # <<>>
    /\ call[6] = MiningDifficulty
    /\ result[1].nonce > 1

\* C31: verifySignature(payload, signData(payload, priv), pub) is true for
\* every matching key pair and payload; with a different payload, a different
\* signature or the public key of another pair it is false; and it never
\* raises: it answers false for a malformed signature or key.
C31_VerifiesExactlyTheSignature ==
    (call # <<>> /\ call[1] = "verifySignature" /\ result # <<>>)
        => /\ result[1] \in BOOLEAN
           /\ result[1] = TRUE
                <=> (call[4] \in Keys /\ call[3] = signData(call[2], call[4]))

\* verifySignature has answered true for a signature string that is not the
\* one signData returns for the payload and the key
C31_OtherSignatureAccepted ==
    /\ call # <<>> /\ call[1] = "verifySignature" /\ result = <<TRUE>>
    /\ call[3] # signData(call[2], call[4])

\* the token is a valid access token of an existing, active user whose role
\* is admin
ActiveAdminToken(token) ==
    /\ token \notin {NoToken, GarbageToken}
    /\ token[1] = "access"
    /\ ClockTimestamp(now) < token[3] + AccessLifetime
    /\ \E u \in DOMAIN users :
          users[u].id = token[2] /\ users[u].isActive /\ users[u].role = "admin"

\* C32: mineBlock and validateBlockchain run only for requests carrying a
\* valid access token of an existing, active user whose role is admin; every
\* other request is answered 401 or 403 by the middleware, and the request a
\* miner is serving was made by such a user.
C32_MiningAndValidationAdminOnly ==
    /\ \A token \in RequestTokens(now) :
          IF ActiveAdminToken(token) THEN AdminRoute(token).status = 0
          ELSE AdminRoute(token).status \in {401, 403}
    /\ \A m \in Miners :
          miner[m].pc # "idle" =>
             \E u \in DOMAIN users :
                /\ users[u].id = miner[m].by
                /\ users[u].isActive /\ users[u].role = "admin"

\* C32 witness: an administrator's mineBlock request is being served while
\* the requests of a user without the role, of the deactivated administrator
\* and without a token are turned away.
C32_AdminMinesOthersRejected ==
    /\ \E m \in Miners : miner[m].pc # "idle" /\ miner[m].by = "admin"
    /\ AdminRoute(jwtSign("access", "alice", now)).status = 403
    /\ AdminRoute(jwtSign("access", "root", now)).status = 401
    /\ AdminRoute(NoToken).status = 401

ActiveUser(id) ==
    \E u \in DOMAIN users : users[u].id = id /\ users[u].isActive

\* C34: authenticateToken lets a request through only with a token that
\* verifies and whose user exists and is active: no token is answered 401
\* 'Access token required', an expired token 401, any other invalid token 403
\* 'Invalid token', a missing or inactive user 401; and every wallet, every
\* transaction and every mineBlock request in progress comes from a request
\* of an existing, active user.
C34_OnlyVerifiedActiveUsersPass ==
    /\ \A token \in RequestTokens(now) :
          LET a == authenticateToken(token)
          IN IF token = NoToken
             THEN a.status = 401 /\ a.error = "Access token required"
             ELSE IF token = GarbageToken \/ token[1] # "access"
             THEN a.status = 403 /\ a.error = "Invalid token"
             ELSE IF ClockTimestamp(now) >= token[3] + AccessLifetime
             THEN a.status = 401
             ELSE IF ~ActiveUser(token[2])
             THEN a.status = 401
             ELSE a.status = 0 /\ a.user.id = token[2]
    /\ \A w \in DOMAIN wallets : ActiveUser(wallets[w].userId)
    /\ \A t \in DOMAIN txs : ActiveUser(txs[t].userId)
    /\ \A m \in Miners : miner[m].pc # "idle" => ActiveUser(miner[m].by)

\* C34 witness: handlers have run for the requests of active users (a wallet,
\* a transaction, a mineBlock request in progress) while each kind of
\* unacceptable token is turned away with its answer.
C34_EachRejectionAndAPass ==
    /\ wallets # <<>> /\ txs # <<>>
    /\ \E m \in Miners : miner[m].pc # "idle"
    /\ authenticateToken(NoToken).status = 401
    /\ authenticateToken(GarbageToken).status = 403
    /\ authenticateToken(jwtSign("refresh", "alice", now)).status = 403
    /\ authenticateToken(<<"access", "alice",
                           ClockTimestamp(now) - AccessLifetime>>).error
          = "Token expired"
    /\ authenticateToken(jwtSign("access", MissingUserId, now)).status = 401
    /\ authenticateToken(jwtSign("access", "root", now)).status = 401
    /\ authenticateToken(jwtSign("access", "alice", now)).status = 0

\* ------------------------------------------------------------ AuthController
\* SpecAuth: register, login, refresh and logout over the User collection
\* _id of the n-th stored user
ObjectIds == <<"admin", "alice", "bob", "root", "u5", "u6">>
MaxUsers == Len(ObjectIds)
\* the most refresh tokens a user holds at a time
MaxRefreshTokens == 2

\* the bodies of POST /register: usernames and emails that are new, taken by
\* a stored user, or shared between two bodies
RegisterBodies ==
    {[username |-> "carol", email |-> "carol@"],
     [username |-> "carol", email |-> "dave@"],
     [username |-> "alice", email |-> "erin@"],
     [username |-> "dave", email |-> "bob@"]}
LoginEmails == {"alice@", "root@", "carol@", "nobody@"}

\* the bodies of POST /refresh and POST /logout: no token, text that is no
\* token, an access token, and the refresh tokens that have been or could
\* have been issued
RefreshBodies ==
    {NoToken, GarbageToken, jwtSign("access", "alice", now)}
    \cup {<<"refresh", id, s>> : id \in {"alice", "root", "u5", MissingUserId},
                                 s \in 0..ClockTimestamp(MaxClock)}

InSeq(x, s) == \E i \in DOMAIN s : s[i] = x

\* generateTokens(user)
generateTokens(user, t) ==
    [accessToken |-> jwtSign("access", user.id, t),
     refreshToken |-> jwtSign("refresh", user.id, t)]

\* verifyRefreshToken
verifyRefreshToken(token) ==
    IF token = GarbageToken THEN "JsonWebTokenError"
    ELSE jwtVerify(token, "refresh", now)

\* userSchema.methods.addRefreshToken: push and save
addRefreshToken(user, token) ==
    [user EXCEPT !.refreshTokens = Append(@, token)]

\* userSchema.methods.removeRefreshToken: filter and save
removeRefreshToken(user, token) ==
    [user EXCEPT !.refreshTokens = SelectSeq(@, LAMBDA x : x # token)]

\* userSchema: email and username { unique: true }
UserSaveOk(body) ==
    \A u \in DOMAIN users :
        users[u].email # body.email /\ users[u].username # body.username

\* User.findOne({ $or: [{ email }, { username }] }) that finds nothing
existingUser_Unchecked(body) == FALSE

\* User.findOne({ $or: [{ email }, { username }] })
existingUser(body) ==
    \E u \in DOMAIN users :
        users[u].email = body.email \/ users[u].username = body.username

\* the answer of a handler, with the body of the request it answers: a tuple
\* that starts with the kind of the body
Answer(op, status, id, body, tokens) ==
    <<[op |-> op, status |-> status, id |-> id, body |-> body,
       accessToken |-> tokens.accessToken, refreshToken |-> tokens.refreshToken]>>
NoTokens == [accessToken |-> NoToken, refreshToken |-> NoToken]

\* AuthController.register: one step up to the answer of User.findOne, one
\* step for user.save(), generateTokens and addRefreshToken
register(r, body) ==
    /\ UNCHANGED <<wallets, txs, blocks, now, miner, starter, call, result>>
    /\ IF auth.reg[r].pc = "idle"
       THEN IF existingUser(body)
            THEN /\ auth' = [auth EXCEPT
                       !.res = Answer("register", 409, "", <<"body", body.username, body.email>>, NoTokens)]
                 /\ UNCHANGED users
            ELSE /\ auth' = [auth EXCEPT
                       !.reg[r] = [pc |-> "found", username |-> body.username,
                                   email |-> body.email]]
                 /\ UNCHANGED users
       ELSE /\ body = [username |-> auth.reg[r].username,
                       email |-> auth.reg[r].email]
            /\ Len(users) < MaxUsers
            /\ IF UserSaveOk(body)
               THEN LET user == [id |-> ObjectIds[Len(users) + 1],
                                 username |-> body.username,
                                 email |-> body.email, role |-> "user",
                                 isActive |-> TRUE, refreshTokens |-> <<>>]
                        tokens == generateTokens(user, now)
                    IN /\ users' = Append(users,
                                      addRefreshToken(user, tokens.refreshToken))
                       /\ auth' = [auth EXCEPT
                             !.reg[r] = IdleRegistrant,
                             !.res = Answer("register", 201, user.id,
                                            <<"body", body.username, body.email>>,
                                            tokens)]
               ELSE /\ auth' = [auth EXCEPT
                          !.reg[r] = IdleRegistrant,
                          !.res = Answer("register", 500, "", <<"body", body.username, body.email>>, NoTokens)]
                    /\ UNCHANGED users

\* AuthController.login; passwordValid is the answer of comparePassword
login(email, passwordValid) ==
    /\ UNCHANGED <<wallets, txs, blocks, now, miner, starter, call, result>>
    /\ IF ~ \E u \in DOMAIN users : users[u].email = email /\ users[u].isActive
       THEN /\ auth' = [auth EXCEPT
                  !.res = Answer("login", 401, "", <<"email", email>>, NoTokens)]
            /\ UNCHANGED users
       ELSE LET u == CHOOSE u \in DOMAIN users : users[u].email = email
                tokens == generateTokens(users[u], now)
            IN IF ~passwordValid
               THEN /\ auth' = [auth EXCEPT
                          !.res = Answer("login", 401, "", <<"email", email>>, NoTokens)]
                    /\ UNCHANGED users
               ELSE /\ Len(users[u].refreshTokens) < MaxRefreshTokens
                    /\ users' = [users EXCEPT
                          ![u] = addRefreshToken(@, tokens.refreshToken)]
                    /\ auth' = [auth EXCEPT
                          !.res = Answer("login", 200, users[u].id,
                                         <<"email", email>>, tokens)]

\* AuthController.refresh
refresh(refreshToken) ==
    /\ UNCHANGED <<wallets, txs, blocks, now, miner, starter, call, result>>
    /\ IF refreshToken = NoToken
       THEN /\ auth' = [auth EXCEPT
                  !.res = Answer("refresh", 401, "", refreshToken, NoTokens)]
            /\ UNCHANGED users
       ELSE IF verifyRefreshToken(refreshToken) # "decoded"
       THEN /\ auth' = [auth EXCEPT
                  !.res = Answer("refresh", 401, "", refreshToken, NoTokens)]
            /\ UNCHANGED users
       ELSE IF \/ FindUser(refreshToken[2]) = 0
               \/ ~users[FindUser(refreshToken[2])].isActive
               \/ ~InSeq(refreshToken,
                         users[FindUser(refreshToken[2])].refreshTokens)
       THEN /\ auth' = [auth EXCEPT
                  !.res = Answer("refresh", 401, "", refreshToken, NoTokens)]
            /\ UNCHANGED users
       ELSE LET u == FindUser(refreshToken[2])
                tokens == generateTokens(users[u], now)
            IN /\ users' = [users EXCEPT
                     ![u] = addRefreshToken(removeRefreshToken(@, refreshToken),
                                            tokens.refreshToken)]
               /\ auth' = [auth EXCEPT
                     !.res = Answer("refresh", 200, users[u].id, refreshToken,
                                    tokens)]

\* AuthController.logout behind authenticateToken
logout(token, refreshToken) ==
    /\ UNCHANGED <<wallets, txs, blocks, now, miner, starter, call, result>>
    /\ authenticateToken(token).status = 0
    /\ LET u == FindUser(authenticateToken(token).user.id)
       IN /\ users' = IF refreshToken = NoToken THEN users
                      ELSE [users EXCEPT ![u] = removeRefreshToken(@, refreshToken)]
          /\ auth' = [auth EXCEPT
                !.res = Answer("logout", 200, users[u].id, refreshToken, NoTokens)]

NextAuth ==
    \/ Tick
    \/ \E r \in Registrants, body \in RegisterBodies : register(r, body)
    \/ \E email \in LoginEmails, passwordValid \in BOOLEAN :
          login(email, passwordValid)
    \/ \E refreshToken \in RefreshBodies : refresh(refreshToken)
    \/ \E token \in RequestTokens(now), refreshToken \in RefreshBodies :
          logout(token, refreshToken)

SpecAuth == Init /\ [][NextAuth]_vars

\* the refresh tokens stored for the user with this _id
StoredRefreshTokens(id) ==
    IF FindUser(id) = 0 THEN <<>> ELSE users[FindUser(id)].refreshTokens

\* C35: after a successful refresh with refresh token R, R is no longer among
\* the user's stored refresh tokens and the newly issued refresh token is, so
\* that a later refresh with R is answered 401; a refresh with a token that
\* is not in the stored set is answered 401, issues no tokens and changes no
\* user.
C35_RefreshTokensRotate ==
    /\ [](auth.res # <<>> /\ auth.res[1].op = "refresh" /\ auth.res[1].status = 200
            => /\ ~InSeq(auth.res[1].body, StoredRefreshTokens(auth.res[1].id))
               /\ InSeq(auth.res[1].refreshToken,
                        StoredRefreshTokens(auth.res[1].id)))
    /\ [][\A refreshToken \in RefreshBodies :
            ( /\ refresh(refreshToken)
              /\ \/ refreshToken \in {NoToken, GarbageToken}
                 \/ ~InSeq(refreshToken, StoredRefreshTokens(refreshToken[2])) )
            => /\ users' = users
               /\ auth'.res[1].status = 401
               /\ auth'.res[1].accessToken = NoToken
               /\ auth'.res[1].refreshToken = NoToken]_vars

\* a refresh has just been answered 200 and the refresh token it was made
\* with is still stored: the token issued in the same second is the same text
C35_UsedTokenStillStored ==
    /\ auth.res # <<>> /\ auth.res[1].op = "refresh" /\ auth.res[1].status = 200
    /\ auth.res[1].refreshToken = auth.res[1].body
    /\ InSeq(auth.res[1].body, StoredRefreshTokens(auth.res[1].id))

\* a stored user has the email or the username of the body
TakenByStoredUser(body) ==
    \E u \in DOMAIN users :
        users[u].email = body.email \/ users[u].username = body.username

\* C36: a register request whose email or username a stored user already has
\* is answered 409, creates no user and issues no tokens; and whatever
\* register requests have run, no two stored users share an email or a
\* username.
C36_DuplicateRegistrationRefused ==
    /\ [](\A u \in DOMAIN users, v \in DOMAIN users :
             u # v => /\ users[u].email # users[v].email
                      /\ users[u].username # users[v].username)
    /\ [][\A r \in Registrants, body \in RegisterBodies :
            ( /\ auth.reg[r].pc = "idle"
              /\ TakenByStoredUser(body)
              /\ register(r, body) )
            => /\ users' = users
               /\ auth'.res # <<>>
               /\ auth'.res[1].op = "register"
               /\ auth'.res[1].status = 409
               /\ auth'.res[1].accessToken = NoToken
               /\ auth'.res[1].refreshToken = NoToken]_vars

\* C36 witness: a user has been registered and a later request with the same
\* username has been answered 409.
C36_RegisteredThenRefused ==
    /\ Len(users) > Len(SeededUsers)
    /\ auth.res # <<>> /\ auth.res[1].op = "register" /\ auth.res[1].status = 409
    /\ \E u \in DOMAIN users :
          /\ u > Len(SeededUsers)
          /\ users[u].username = auth.res[1].body[2]

\* the private key is the one of the key pair of the wallet stored under the
\* address
KeyOfWallet(privateKey, address) ==
    /\ FindWallet(address) # 0
    /\ privateKey \in Keys
    /\ privateKey = wallets[FindWallet(address)].publicKey

\* C38: createTransaction stores a pending transaction only when the
\* signature produced with the supplied private key verifies against the
\* stored public key of the source wallet; a request whose key is no key or
\* the key of another pair is answered with an error; a step that stores a
\* transaction appends one pending transaction signed with the key of its
\* source wallet and changes no wallet.
C38_StoredOnlyWithTheWalletKey ==
    /\ [](\A user \in Authenticated, fromWallet \in RequestAddresses,
             toWallet \in RequestAddresses, amount \in RequestAmounts,
             fee \in Fees, privateKey \in PrivateKeyInputs, nonce \in Nonces :
             ~KeyOfWallet(privateKey, fromWallet)
             => createTransactionResult(user, fromWallet, toWallet, amount, fee,
                                        privateKey, nonce).status >= 400)
    /\ [](\A t \in DOMAIN txs :
             /\ FindWallet(txs[t].fromWallet) # 0
             /\ txs[t].signature.key
                   = wallets[FindWallet(txs[t].fromWallet)].publicKey)
    /\ [][txs' # txs /\ Len(txs') > Len(txs)
           => /\ wallets' = wallets
              /\ Len(txs') = Len(txs) + 1
              /\ txs'[Len(txs')].status = "pending"
              /\ KeyOfWallet(txs'[Len(txs')].signature.key,
                             txs'[Len(txs')].fromWallet)]_vars

\* C38 witness: a transaction is stored, and of three requests that differ
\* only in the private key the one with the key of the source wallet is
\* accepted, the one with text that is no key is answered 500 and the one
\* with the key of another pair is answered 400.
C38_WrongKeysRefused ==
    /\ txs # <<>>
    /\ \E user \in Authenticated, fromWallet \in RequestAddresses,
          toWallet \in RequestAddresses, amount \in RequestAmounts,
          fee \in Fees, nonce \in Nonces, own \in Keys, other \in Keys :
          /\ own # other
          /\ createTransactionResult(user, fromWallet, toWallet, amount, fee,
                                     own, nonce).status = 201
          /\ createTransactionResult(user, fromWallet, toWallet, amount, fee,
                                     0, nonce).status = 500
          /\ createTransactionResult(user, fromWallet, toWallet, amount, fee,
                                     other, nonce).status = 400

\* the stored blocks with index 0
IndexZeroBlocks(chain) == {b \in DOMAIN chain : chain[b].index = 0}

\* C39: whatever initializeGenesis calls run, one after the other or at the
\* same time, there is never more than one block with index 0; when a call
\* returns or fails there is exactly one; and a call that finds a block with
\* index 0 returns without writing anything.
C39_GenesisCreatedOnce ==
    /\ [](Cardinality(IndexZeroBlocks(blocks)) <= 1)
    /\ [][\A s \in Starters :
            (initializeGenesis(s) /\ starter'[s] = "idle")
            => Cardinality(IndexZeroBlocks(blocks')) = 1]_vars
    /\ [][\A s \in Starters :
            (starter[s] = "idle" /\ getGenesis # 0 /\ initializeGenesis(s))
            => blocks' = blocks /\ starter'[s] = "idle"]_vars

\* C39 witness: two calls found no genesis block, one has saved it and the
\* other is about to save.
C39_SecondCallAboutToSave ==
    /\ Cardinality(IndexZeroBlocks(blocks)) = 1
    /\ \E s \in Starters : starter[s] = "save"

\* the hash of the arguments of the mineBlock call with this nonce meets the
\* target of the call
NonceMeetsTarget(nonce) ==
    startsWith(calculateBlockHash(call[2], call[3], call[4], call[5], nonce),
               call[6])

\* C40: CryptoUtils.mineBlock returns a nonce that is at least 1 and meets
\* the target while no nonce from 1 up to it does, so it is the smallest
\* such nonce and nonce 0 is never returned, whether or not nonce 0 meets the
\* target; and a call for which such a nonce exists returns.
C40_SmallestNonceFromOne ==
    /\ []((call # <<>> /\ call[1] = "mineBlock" /\ result # <<>>)
            => /\ result[1].nonce >= 1
               /\ NonceMeetsTarget(result[1].nonce)
               /\ \A nonce \in 1..(result[1].nonce - 1) : ~NonceMeetsTarget(nonce)
               /\ result[1].hash = calculateBlockHash(call[2], call[3], call[4],
                                                      call[5], result[1].nonce))
    /\ ((call # <<>> /\ call[1] = "mineBlock"
           /\ \E nonce \in 1..PowPeriod : NonceMeetsTarget(nonce))
          ~> (result # <<>>))

\* C40 witness: nonce 0 meets the target of the call, nonce 1 does not, and
\* the call has returned nonce 2.
C40_ZeroMeetsTargetTwoReturned ==
    /\ call # <<>> /\ call[1] = "mineBlock" /\ result # <<>>
    /\ call[6] = MiningDifficulty
    /\ NonceMeetsTarget(0)
    /\ ~NonceMeetsTarget(1)
    /\ result[1].nonce = 2
====
